---- MODULE Spec2Model ----
(***************************************************************************)
(* <he-pilltag>: the edit lifecycle of the tag (openEdit, confirmEdit,     *)
(* abortEdit), the inline prediction (predictEdit, confirmPrediction) and  *)
(* the listeners the constructor registers, modelled from src/pilltag.js.  *)
(*                                                                         *)
(* A JavaScript string is a sequence of UTF-16 code units (numbers), so    *)
(* that trim, toUpperCase, toLowerCase, startsWith, slice and the default  *)
(* Array.prototype.sort ordering are computed as the engine computes them. *)
(***************************************************************************)
EXTENDS Integers, Sequences, FiniteSets, TLC

(* ------------------------------------------------------------------ *)
(* String literals of the program and of the modelled inputs          *)
(* ------------------------------------------------------------------ *)
\* 'New Tag'
NewTag == <<78, 101, 119, 32, 84, 97, 103>>
\* ''
Empty == <<>>
\* ' '
Blank == <<32>>
\* 'Apple', 'apple', 'Apricot', 'avocado', 'App', 'a', 'Ma', 'Mango'
sApple == <<65, 112, 112, 108, 101>>
slApple == <<97, 112, 112, 108, 101>>
sApricot == <<65, 112, 114, 105, 99, 111, 116>>
sAvocado == <<97, 118, 111, 99, 97, 100, 111>>
sApp == <<65, 112, 112>>
sA == <<97>>
sMa == <<77, 97>>
sMango == <<77, 97, 110, 103, 111>>

(* ------------------------------------------------------------------ *)
(* String primitives                                                   *)
(* ------------------------------------------------------------------ *)
\* White space as String.prototype.trim and the regular expression
\* classes \s / \S see it (the ASCII part and the no-break space).
IsSpace(c) == c \in {9, 10, 11, 12, 13, 32, 160}

\* The regular expression class \w: [A-Za-z0-9_].
IsWordChar(c) ==
    \/ (c >= 65 /\ c <= 90)
    \/ (c >= 97 /\ c <= 122)
    \/ (c >= 48 /\ c <= 57)
    \/ c = 95

ToUpperChar(c) == IF c >= 97 /\ c <= 122 THEN c - 32 ELSE c
ToLowerChar(c) == IF c >= 65 /\ c <= 90 THEN c + 32 ELSE c

ToLowerCase(s) == [i \in 1..Len(s) |-> ToLowerChar(s[i])]

RECURSIVE TrimStart(_)
TrimStart(s) ==
    IF s # <<>> /\ IsSpace(Head(s)) THEN TrimStart(Tail(s)) ELSE s

RECURSIVE TrimEnd(_)
TrimEnd(s) ==
    IF s # <<>> /\ IsSpace(s[Len(s)]) THEN TrimEnd(SubSeq(s, 1, Len(s) - 1)) ELSE s

\* String.prototype.trim
Trim(s) == TrimEnd(TrimStart(s))

\* String.prototype.startsWith
StartsWith(s, p) == Len(p) <= Len(s) /\ SubSeq(s, 1, Len(p)) = p

\* String.prototype.slice(n) for n >= 0
Slice(s, n) == SubSeq(s, n + 1, Len(s))

\* s.replace(/\w\S*/g, txt => txt.charAt(0).toUpperCase() + txt.substr(1).toLowerCase()):
\* a match starts at the first \w character outside a match and runs to the
\* next white space; inMatch tells whether position 1 of s continues a match.
RECURSIVE TitleCaseFrom(_, _)
TitleCaseFrom(s, inMatch) ==
    IF s = <<>> THEN <<>>
    ELSE LET c == Head(s) IN
         IF inMatch
         THEN IF IsSpace(c)
              THEN <<c>> \o TitleCaseFrom(Tail(s), FALSE)
              ELSE <<ToLowerChar(c)>> \o TitleCaseFrom(Tail(s), TRUE)
         ELSE IF IsWordChar(c)
              THEN <<ToUpperChar(c)>> \o TitleCaseFrom(Tail(s), TRUE)
              ELSE <<c>> \o TitleCaseFrom(Tail(s), FALSE)

TitleCase(s) == TitleCaseFrom(s, FALSE)

\* The order of Array.prototype.sort without a comparator: code unit by code
\* unit, a proper prefix before the longer string.
RECURSIVE CodeUnitLess(_, _)
CodeUnitLess(a, b) ==
    IF b = <<>> THEN FALSE
    ELSE IF a = <<>> THEN TRUE
    ELSE IF Head(a) # Head(b) THEN Head(a) < Head(b)
    ELSE CodeUnitLess(Tail(a), Tail(b))

\* Insert x into the sorted array arr (one step of the sort).
RECURSIVE SortInsert(_, _)
SortInsert(arr, x) ==
    IF arr = <<>> THEN <<x>>
    ELSE IF CodeUnitLess(x, Head(arr)) THEN <<x>> \o arr
    ELSE <<Head(arr)>> \o SortInsert(Tail(arr), x)

\* Array.prototype.sort() of an array of strings
RECURSIVE SortStrings(_)
SortStrings(arr) ==
    IF arr = <<>> THEN <<>>
    ELSE SortInsert(SortStrings(Tail(arr)), Head(arr))

\* Array.prototype.filter(item => item.toLowerCase().startsWith(prefix))
RECURSIVE FilterPrefix(_, _)
FilterPrefix(arr, prefix) ==
    IF arr = <<>> THEN <<>>
    ELSE IF StartsWith(ToLowerCase(Head(arr)), prefix)
         THEN <<Head(arr)>> \o FilterPrefix(Tail(arr), prefix)
         ELSE FilterPrefix(Tail(arr), prefix)

\* Array.from(new Set(arr)): the first occurrence of every element, in order.
RECURSIVE Dedup(_, _)
Dedup(arr, seen) ==
    IF arr = <<>> THEN <<>>
    ELSE IF Head(arr) \in seen THEN Dedup(Tail(arr), seen)
    ELSE <<Head(arr)>> \o Dedup(Tail(arr), seen \cup {Head(arr)})

Elems(arr) == {arr[i] : i \in 1..Len(arr)}

(* ------------------------------------------------------------------ *)
(* Bounds                                                              *)
(* ------------------------------------------------------------------ *)
\* How many focus events the element receives (every one registers one more
\* blur, keydown and input listener).
MaxFocus == 2
\* How many calls the host script makes to the element's properties and methods.
MaxHostCalls == 1

(* ------------------------------------------------------------------ *)
(* State                                                               *)
(* ------------------------------------------------------------------ *)
VARIABLES
    tagText,         \* text of #tag-text outside the #prediction span
    prediction,      \* <<>>: no #prediction span; <<g>>: a span with text g
    originalText,    \* #originalText
    autoComplete,    \* #autoComplete, an array of strings
    editable,        \* #editable: "undefined", "true" or "false"
    removable,       \* #removable: "undefined", "true" or "false"
    removeDisplay,   \* style.display of the remove button
    labelDisplay,    \* style.display of #auto-complete-label
    contenteditable, \* the contenteditable attribute of #tag-text is 'true'
    focused,         \* #tag-text is the focused element
    lifecycle,       \* "created", "connected" or "removed"
    attrs,           \* the host element's editable / removable attributes
    justConfirmed,   \* one flag per focus listener run (its closure variable)
    emitted,         \* the events the last handler dispatched, in order
    calls,           \* the #confirmEdit / #abortEdit calls of the last handler
    lastOp,          \* the signal or API call handled last
    pre,             \* the component as that handler found it
    sessionValue,    \* the value shown when the last edit session began
    hostCalls        \* how many property and method calls the host has made

vars == <<tagText, prediction, originalText, autoComplete, editable, removable,
          removeDisplay, labelDisplay, contenteditable, focused, lifecycle,
          attrs, justConfirmed, emitted, calls, lastOp, pre, sessionValue, hostCalls>>

\* The component as one record, the form the handlers below work on.
Component ==
    [tagText |-> tagText, prediction |-> prediction, originalText |-> originalText,
     autoComplete |-> autoComplete, editable |-> editable, removable |-> removable,
     removeDisplay |-> removeDisplay, labelDisplay |-> labelDisplay,
     contenteditable |-> contenteditable, focused |-> focused,
     lifecycle |-> lifecycle, attrs |-> attrs, justConfirmed |-> justConfirmed,
     emitted |-> <<>>, calls |-> <<>>]

\* this.#tagText.textContent (read): the text of all descendants, the
\* #prediction span included.
TextContent(c) ==
    c.tagText \o (IF c.prediction = <<>> THEN <<>> ELSE c.prediction[1])

\* this.#tagText.textContent = v: all children are replaced by one text node.
SetText(c, v) == [c EXCEPT !.tagText = v, !.prediction = <<>>]

\* this.shadowRoot.getElementById('prediction') is not null
HasPrediction(c) == c.prediction # <<>>

\* this.dispatchEvent(new CustomEvent(type, {detail}))
Dispatch(c, type, detail) ==
    [c EXCEPT !.emitted = Append(@, [type |-> type, detail |-> detail])]

\* The truthiness of #editable / #removable.
Truthy(flag) == flag = "true"

\* What pre keeps of the component.
Snapshot(c) ==
    [tagText |-> c.tagText, prediction |-> c.prediction,
     originalText |-> c.originalText, autoComplete |-> c.autoComplete,
     editable |-> c.editable, contenteditable |-> c.contenteditable,
     focused |-> c.focused, lifecycle |-> c.lifecycle,
     listeners |-> Len(c.justConfirmed)]

\* The step that handles op and leaves the component as c.
Becomes(c, op) ==
    /\ tagText' = c.tagText
    /\ prediction' = c.prediction
    /\ originalText' = c.originalText
    /\ autoComplete' = c.autoComplete
    /\ editable' = c.editable
    /\ removable' = c.removable
    /\ removeDisplay' = c.removeDisplay
    /\ labelDisplay' = c.labelDisplay
    /\ contenteditable' = c.contenteditable
    /\ focused' = c.focused
    /\ lifecycle' = c.lifecycle
    /\ attrs' = c.attrs
    /\ justConfirmed' = c.justConfirmed
    /\ emitted' = c.emitted
    /\ calls' = c.calls
    /\ lastOp' = op
    /\ pre' = Snapshot(Component)
    /\ sessionValue' = IF ~contenteditable /\ c.contenteditable
                       THEN TextContent(Component)
                       ELSE IF op.op = "textContent" /\ op.value.type = "string"
                       THEN c.originalText
                       ELSE sessionValue
    /\ hostCalls' = IF op.by = "host" THEN hostCalls + 1 ELSE hostCalls

(* ------------------------------------------------------------------ *)
(* Methods of PillTag                                                  *)
(* ------------------------------------------------------------------ *)
\* AddAutoComplete with the array replaced by the new value alone.
AddAutoComplete_Replaces(c, value) ==
    [c EXCEPT !.autoComplete = <<TitleCase(value)>>]

\* addAutoComplete(value) for a string value: push the title-cased value,
\* keep the first occurrence of every element. The setAttribute that follows
\* comes back through attributeChangedCallback as autoComplete =
\* JSON.parse(JSON.stringify(array)), an array with the same strings.
AddAutoComplete(c, value) ==
    [c EXCEPT !.autoComplete = Dedup(Append(@, TitleCase(value)), {})]

\* AbortEdit without the restore of line 370.
AbortEdit_NoRestore(c) ==
    LET t  == Trim(TextContent(c))
        c1 == IF t # <<>>
              THEN AddAutoComplete(SetText(c, t), Trim(t))
              ELSE SetText(c, NewTag)
        c2 == [c1 EXCEPT !.contenteditable = FALSE]
        c4 == [c2 EXCEPT !.labelDisplay = "none"]
    IN [c4 EXCEPT !.calls = Append(@, [op |-> "abortEdit",
                                        editing |-> c.contenteditable,
                                        oldTag |-> c.originalText,
                                        draft |-> c.tagText,
                                        text |-> TextContent(c),
                                        newTag |-> TextContent(c4),
                                        events |-> <<>>])]

\* #abortEdit()
AbortEdit(c) ==
    LET t  == Trim(TextContent(c))
        c1 == IF t # <<>>
              THEN AddAutoComplete(SetText(c, t), Trim(t))
              ELSE SetText(c, NewTag)
        c2 == [c1 EXCEPT !.contenteditable = FALSE]
        c3 == SetText(c2, c2.originalText)
        c4 == [c3 EXCEPT !.labelDisplay = "none"]
    IN [c4 EXCEPT !.calls = Append(@, [op |-> "abortEdit",
                                        editing |-> c.contenteditable,
                                        oldTag |-> c.originalText,
                                        draft |-> c.tagText,
                                        text |-> TextContent(c),
                                        newTag |-> TextContent(c4),
                                        events |-> <<>>])]

\* The blur listeners, from listener k on: each one aborts unless its own
\* justConfirmed is set.
RECURSIVE BlurListeners(_, _)
BlurListeners(c, k) ==
    IF k > Len(c.justConfirmed) THEN c
    ELSE BlurListeners(IF c.justConfirmed[k] THEN c ELSE AbortEdit(c), k + 1)

\* this.#tagText.blur(): nothing unless #tag-text has the focus; otherwise the
\* focus is lost and the blur event is dispatched synchronously.
BlurElement(c) ==
    IF c.focused THEN BlurListeners([c EXCEPT !.focused = FALSE], 1) ELSE c

\* ConfirmEvents without the test that the snapshot is not 'New Tag'.
ConfirmEvents_NoPlaceholderTest(c, oldTag, newTag) ==
    LET u == IF newTag # oldTag
             THEN Dispatch(c, "he-tag-updated", [newTag |-> newTag, oldTag |-> oldTag])
             ELSE c
    IN IF oldTag = NewTag
       THEN Dispatch(u, "he-tag-added", [newTag |-> newTag])
       ELSE u

\* ConfirmEvents with he-tag-added dispatched only for a changed value.
ConfirmEvents_AddedOnChange(c, oldTag, newTag) ==
    LET u == IF newTag # oldTag /\ oldTag # NewTag
             THEN Dispatch(c, "he-tag-updated", [newTag |-> newTag, oldTag |-> oldTag])
             ELSE c
    IN IF oldTag = NewTag /\ newTag # oldTag
       THEN Dispatch(u, "he-tag-added", [newTag |-> newTag])
       ELSE u

\* The two dispatches of #confirmEdit (lines 347-356) for the snapshot
\* oldTag and the value newTag.
ConfirmEvents(c, oldTag, newTag) ==
    LET u == IF newTag # oldTag /\ oldTag # NewTag
             THEN Dispatch(c, "he-tag-updated", [newTag |-> newTag, oldTag |-> oldTag])
             ELSE c
    IN IF oldTag = NewTag
       THEN Dispatch(u, "he-tag-added", [newTag |-> newTag])
       ELSE u

\* The value #confirmEdit writes to #tag-text (lines 340-345).
ConfirmValue(c) ==
    IF Trim(TextContent(c)) # <<>> THEN TitleCase(Trim(TextContent(c))) ELSE NewTag

\* #confirmEdit()
ConfirmEdit(c) ==
    LET c1 == IF Trim(TextContent(c)) # <<>>
              THEN AddAutoComplete(SetText(c, ConfirmValue(c)), Trim(ConfirmValue(c)))
              ELSE SetText(c, ConfirmValue(c))
        c2 == [c1 EXCEPT !.contenteditable = FALSE]
        c3 == ConfirmEvents(c2, c2.originalText, Trim(TextContent(c2)))
        c4 == [c3 EXCEPT !.originalText = Trim(TextContent(c3)),
                         !.labelDisplay = "none"]
        c5 == [c4 EXCEPT !.calls = Append(@, [op |-> "confirmEdit",
                                               editing |-> c.contenteditable,
                                               oldTag |-> c.originalText,
                                               draft |-> c.tagText,
                                               text |-> TextContent(c),
                                               newTag |-> Trim(TextContent(c2)),
                                               events |-> SubSeq(c3.emitted,
                                                                 Len(c.emitted) + 1,
                                                                 Len(c3.emitted))])]
    IN BlurElement(c5)

\* BestMatch without the sort: the first match in array order.
BestMatch_Unsorted(filtered) == filtered[1]

\* filtered.sort()[0] of #predictEdit: filter copies, so the sort leaves
\* #autoComplete as it is.
BestMatch(filtered) == SortStrings(filtered)[1]

\* this.#autoComplete.filter(...) of #predictEdit for the text inputText
Candidates(arr, inputText) == FilterPrefix(arr, Trim(ToLowerCase(inputText)))

\* The guard of line 386.
PredictGuard(arr, inputText) == Len(arr) > 0 /\ Len(inputText) > 0

\* #predictEdit(): inputText is the text of a clone without the #prediction
\* span; the old span is removed and, when a suggestion matches, a new one is
\* appended.
PredictEdit(c) ==
    LET inputText == c.tagText
        c1        == [c EXCEPT !.prediction = <<>>]
        filtered  == Candidates(c.autoComplete, inputText)
    IN IF PredictGuard(c.autoComplete, inputText) /\ Len(filtered) > 0
       THEN [c1 EXCEPT !.prediction = <<Slice(BestMatch(filtered), Len(inputText))>>]
       ELSE c1

\* #confirmPrediction(), called with a #prediction span in the tree. childNodes[0]
\* of #tag-text is the text node before the span (the span itself when there
\* is no text before it).
ConfirmPrediction(c) ==
    LET ghost     == c.prediction[1]
        inputText == IF c.tagText # <<>> THEN c.tagText ELSE ghost
    IN SetText(c, inputText \o ghost)

\* Lines 318-319 of #openEdit.
OpenEditSnapshot(c) ==
    [c EXCEPT !.contenteditable = TRUE, !.originalText = Trim(TextContent(c))]

\* Lines 321-336 of #openEdit (the selection is not part of the state).
OpenEditDraft(c) ==
    LET c1 == IF Trim(TextContent(c)) = NewTag THEN SetText(c, <<>>) ELSE c
    IN [c1 EXCEPT !.labelDisplay =
            IF Trim(TextContent(c1)) = <<>> THEN "block" ELSE "none"]

\* #openEdit(). this.#tagText.focus() (line 320) does nothing when #tag-text
\* has the focus already or is not in a document; otherwise it gives it the
\* focus and the focus listener runs before focus() returns.
RECURSIVE OpenEdit(_)

\* The focus listener (lines 223-263): #openEdit, then one more blur, keydown
\* and input listener with a justConfirmed of their own.
FocusListener(c) ==
    LET c1 == OpenEdit(c)
    IN [c1 EXCEPT !.justConfirmed = Append(@, FALSE)]

\* this.#tagText.focus()
FocusElement(c) ==
    IF ~c.focused /\ c.lifecycle = "connected"
    THEN FocusListener([c EXCEPT !.focused = TRUE])
    ELSE c

OpenEdit(c) ==
    IF ~Truthy(c.editable) THEN c
    ELSE OpenEditDraft(FocusElement(OpenEditSnapshot(c)))

\* One keydown listener (lines 235-257), the one registered k-th.
KeydownListener(c, k, key) ==
    IF key = "Enter"
    THEN ConfirmEdit([c EXCEPT !.justConfirmed[k] = TRUE])
    ELSE IF key = "Escape"
    THEN AbortEdit(c)
    ELSE IF key = "Tab"
    THEN IF HasPrediction(c)
         THEN ConfirmPrediction(c)
         ELSE ConfirmEdit([c EXCEPT !.justConfirmed[k] = TRUE])
    ELSE c

\* All keydown listeners, in the order of their registration.
RECURSIVE KeydownListeners(_, _, _)
KeydownListeners(c, k, key) ==
    IF k > Len(c.justConfirmed) THEN c
    ELSE KeydownListeners(KeydownListener(c, k, key), k + 1, key)

\* One input listener (lines 259-262).
InputListener(c) ==
    LET c1 == PredictEdit(c)
    IN [c1 EXCEPT !.labelDisplay =
            IF Len(TextContent(c1)) > 0 THEN "none" ELSE "block"]

RECURSIVE InputListeners(_, _)
InputListeners(c, k) ==
    IF k > Len(c.justConfirmed) THEN c
    ELSE InputListeners(InputListener(c), k + 1)

\* ClickListener with the dispatch made for an editable tag as well.
ClickListener_Always(c) ==
    Dispatch(c, "he-tag-clicked", [tag |-> Trim(TextContent(c))])

\* The click listener of #tag-text (lines 212-221).
ClickListener(c) ==
    IF ~Truthy(c.editable)
    THEN Dispatch(c, "he-tag-clicked", [tag |-> Trim(TextContent(c))])
    ELSE c

\* The click listener of the remove button (lines 205-210). A focused
\* #tag-text loses the focus with its host; whether a blur event is
\* dispatched for it depends on the browser (blurOnRemove).
RemoveListener(c, blurOnRemove) ==
    LET c1 == [c EXCEPT !.lifecycle = "removed", !.focused = FALSE]
        c2 == IF c.focused /\ blurOnRemove THEN BlurListeners(c1, 1) ELSE c1
    IN Dispatch(c2, "he-tag-removed", [tag |-> Trim(TextContent(c2))])

\* set textContent(value); a JavaScript value is [type, val].
SetTextContentProp(c, value) ==
    IF value.type = "string"
    THEN LET c1 == [SetText(c, Trim(value.val)) EXCEPT !.originalText = Trim(value.val)]
         IN AddAutoComplete(c1, Trim(TextContent(c1)))
    ELSE c

\* SetAutoCompleteProp without the Array.isArray test.
SetAutoCompleteProp_Unchecked(c, value) == [c EXCEPT !.autoComplete = value.val]

\* set autoComplete(value)
SetAutoCompleteProp(c, value) ==
    IF value.type = "array" THEN [c EXCEPT !.autoComplete = value.val] ELSE c

\* set editable(value)
SetEditableProp(c, value) ==
    IF value.type = "boolean"
    THEN [c EXCEPT !.editable = IF value.val THEN "true" ELSE "false"]
    ELSE c

\* set removable(value)
SetRemovableProp(c, value) ==
    IF value.type = "boolean"
    THEN [c EXCEPT !.removable = IF value.val THEN "true" ELSE "false",
                   !.removeDisplay = IF value.val THEN "inline-block" ELSE "none"]
    ELSE c

\* addAutoComplete(value), the public method
AddAutoCompleteMethod(c, value) ==
    IF value.type = "string" THEN AddAutoComplete(c, value.val) ELSE c

\* connectedCallback()
ConnectedCallback(c) ==
    [c EXCEPT !.editable = IF c.attrs.editable THEN "true" ELSE "false",
              !.removable = IF c.attrs.removable THEN "true" ELSE "false"]

(* ------------------------------------------------------------------ *)
(* Inputs                                                              *)
(* ------------------------------------------------------------------ *)
\* JavaScript values handed to the setters and methods.
JsString(s) == [type |-> "string", val |-> s]
JsArray(a) == [type |-> "array", val |-> a]
JsBoolean(b) == [type |-> "boolean", val |-> b]
JsNumber == [type |-> "number", val |-> <<>>]

\* The host elements the constructor is run for: their text content (already
\* joined, not yet trimmed), their parsed auto-complete attribute (<<>> when
\* absent) and whether they carry the editable and removable attributes. The
\* first one is document.createElement('he-pilltag').
Hosts ==
    {[text |-> Empty, seed |-> <<>>, editable |-> FALSE, removable |-> FALSE],
     [text |-> NewTag, seed |-> <<sApple, sApricot>>, editable |-> TRUE, removable |-> TRUE],
     [text |-> sApple, seed |-> <<slApple, sApricot, sAvocado>>, editable |-> TRUE,
      removable |-> FALSE],
     [text |-> <<32>> \o sApple, seed |-> <<>>, editable |-> FALSE, removable |-> TRUE]}
\* What the user leaves in the text node with one input event.
Drafts == {Empty, Blank, sA, sApp, sMa}
Keys == {"Enter", "Escape", "Tab"}
TextValues == {JsString(slApple), JsNumber}
SuggestionValues == {JsArray(<<sMango>>), JsNumber}
AddValues == {JsString(sMango), JsNumber}
FlagValues == {JsBoolean(TRUE), JsBoolean(FALSE), JsNumber}

(* ------------------------------------------------------------------ *)
(* Init: the component after its constructor and the                   *)
(* attributeChangedCallback calls of its creation have run             *)
(* ------------------------------------------------------------------ *)
Init ==
    \E host \in Hosts :
        /\ tagText = Trim(host.text)
        /\ prediction = <<>>
        /\ originalText = Trim(host.text)
        /\ autoComplete = host.seed
        /\ editable = IF host.editable THEN "true" ELSE "undefined"
        /\ removable = IF host.removable THEN "true" ELSE "undefined"
        /\ removeDisplay = IF host.removable THEN "inline-block" ELSE "none"
        /\ labelDisplay = "none"
        /\ contenteditable = FALSE
        /\ focused = FALSE
        /\ lifecycle = "created"
        /\ attrs = [editable |-> host.editable, removable |-> host.removable]
        /\ justConfirmed = <<>>
        /\ emitted = <<>>
        /\ calls = <<>>
        /\ lastOp = [op |-> "constructor", by |-> "host"]
        /\ pre = Snapshot(Component)
        /\ sessionValue = Trim(host.text)
        /\ hostCalls = 0

(* ------------------------------------------------------------------ *)
(* Actions: one per signal, timer and API call                         *)
(* ------------------------------------------------------------------ *)
\* The host appends the element to the document.
Connect ==
    /\ lifecycle = "created"
    /\ Becomes([ConnectedCallback(Component) EXCEPT !.lifecycle = "connected"],
               [op |-> "connect", by |-> "document"])

\* #tag-text (tabindex 0) receives the focus from the user.
Focus ==
    /\ lifecycle = "connected"
    /\ ~focused
    /\ Len(justConfirmed) < MaxFocus
    /\ Becomes(FocusElement(Component), [op |-> "focus", by |-> "user"])

\* The focus leaves #tag-text.
Blur ==
    /\ focused
    /\ Becomes(BlurElement(Component), [op |-> "blur", by |-> "user"])

\* A click on #tag-text: the mouse press gives it the focus if it has none,
\* then the click listener runs.
Click ==
    /\ lifecycle = "connected"
    /\ focused \/ Len(justConfirmed) < MaxFocus
    /\ Becomes(ClickListener(FocusElement(Component)), [op |-> "click", by |-> "user"])

\* A key press in the focused #tag-text.
KeyDown(key) ==
    /\ focused
    /\ Becomes(KeydownListeners(Component, 1, key), [op |-> "keydown", by |-> "user", key |-> key])

\* The user edits the text of the focused, editable #tag-text and leaves d in
\* its text node; every input listener runs.
Input(d) ==
    /\ focused
    /\ contenteditable
    /\ Becomes(InputListeners([Component EXCEPT !.tagText = d], 1),
               [op |-> "input", by |-> "user", draft |-> d])

\* A click on the displayed remove button.
RemoveClick(blurOnRemove) ==
    /\ lifecycle = "connected"
    /\ removeDisplay = "inline-block"
    /\ Becomes(RemoveListener(Component, blurOnRemove), [op |-> "remove", by |-> "user"])

\* TimerFire with a callback that leaves justConfirmed set.
TimerFire_KeepsFlag(k) ==
    /\ k \in 1..Len(justConfirmed)
    /\ justConfirmed[k]
    /\ Becomes(Component, [op |-> "timer", by |-> "timer", k |-> k])

\* The setTimeout callback of listener k (lines 240, 254).
TimerFire(k) ==
    /\ k \in 1..Len(justConfirmed)
    /\ justConfirmed[k]
    /\ Becomes([Component EXCEPT !.justConfirmed[k] = FALSE], [op |-> "timer", by |-> "timer", k |-> k])

\* edit(). When it gives #tag-text the focus, the focus listener runs and
\* counts as one of the MaxFocus focus events.
Edit ==
    /\ hostCalls < MaxHostCalls
    /\ \/ ~Truthy(editable)
       \/ focused
       \/ lifecycle # "connected"
       \/ Len(justConfirmed) < MaxFocus
    /\ Becomes(OpenEdit(Component), [op |-> "edit", by |-> "host"])

SetTextContent(value) ==
    /\ hostCalls < MaxHostCalls
    /\ Becomes(SetTextContentProp(Component, value), [op |-> "textContent", by |-> "host", value |-> value])

SetAutoComplete(value) ==
    /\ hostCalls < MaxHostCalls
    /\ Becomes(SetAutoCompleteProp(Component, value), [op |-> "autoComplete", by |-> "host", value |-> value])

SetEditable(value) ==
    /\ hostCalls < MaxHostCalls
    /\ Becomes(SetEditableProp(Component, value), [op |-> "editable", by |-> "host", value |-> value])

SetRemovable(value) ==
    /\ hostCalls < MaxHostCalls
    /\ Becomes(SetRemovableProp(Component, value), [op |-> "removable", by |-> "host", value |-> value])

CallAddAutoComplete(value) ==
    /\ hostCalls < MaxHostCalls
    /\ Becomes(AddAutoCompleteMethod(Component, value),
            [op |-> "addAutoComplete", by |-> "host", value |-> value])

Next ==
    \/ Connect
    \/ Focus
    \/ Blur
    \/ Click
    \/ \E key \in Keys : KeyDown(key)
    \/ \E d \in Drafts : Input(d)
    \/ \E b \in BOOLEAN : RemoveClick(b)
    \/ \E k \in 1..MaxFocus : TimerFire(k)
    \/ Edit
    \/ \E v \in TextValues : SetTextContent(v)
    \/ \E v \in SuggestionValues : SetAutoComplete(v)
    \/ \E v \in FlagValues : SetEditable(v)
    \/ \E v \in FlagValues : SetRemovable(v)
    \/ \E v \in AddValues : CallAddAutoComplete(v)

Spec == Init /\ [][Next]_vars

(* ------------------------------------------------------------------ *)
(* Properties                                                          *)
(* ------------------------------------------------------------------ *)
\* The calls of the last handler that op names.
CallsOf(op) == {i \in 1..Len(calls) : calls[i].op = op}

\* Event types among the events of a sequence.
TypesIn(events) == {events[i].type : i \in 1..Len(events)}

\* C1: every abort of an active edit session (Escape, or a blur that is not
\* suppressed) leaves the displayed value equal to the value that was shown
\* when the session began, whatever was typed.
C1_AbortRestoresShownValue ==
    \A i \in CallsOf("abortEdit") :
        calls[i].editing => calls[i].newTag = sessionValue

\* The step just taken was a press of key in #tag-text.
Pressed(key) == lastOp.op = "keydown" /\ lastOp.key = key

\* The step just taken was a Tab press in an edit session that showed a
\* prediction for a draft with text in it.
TabOnPrediction ==
    /\ Pressed("Tab")
    /\ pre.contenteditable
    /\ pre.prediction # <<>>
    /\ Trim(pre.tagText) # <<>>

\* The payloads the claims name.
Updated(newTag, oldTag) ==
    [type |-> "he-tag-updated", detail |-> [newTag |-> newTag, oldTag |-> oldTag]]
Added(newTag) == [type |-> "he-tag-added", detail |-> [newTag |-> newTag]]
Removed(tag) == [type |-> "he-tag-removed", detail |-> [tag |-> tag]]

\* An Array.prototype.sort order stated directly: a and b agree before
\* position k, and there a ends or has the smaller code unit.
Precedes(a, b) ==
    \E k \in 1..Len(b) :
        /\ k <= Len(a) + 1
        /\ \A j \in 1..(k - 1) : a[j] = b[j]
        /\ (k = Len(a) + 1 \/ a[k] < b[k])

\* The suggestions of arr that start, without regard to case, with the
\* trimmed text t.
Matches(arr, t) ==
    {x \in Elems(arr) : StartsWith(ToLowerCase(x), ToLowerCase(Trim(t)))}

C3_RoundTrip ==
    /\ Pressed("Enter")
    /\ pre.contenteditable
    /\ sessionValue = NewTag
    /\ pre.originalText = NewTag
    /\ pre.tagText = <<>>
    /\ pre.prediction = <<>>

\* C3 as stated: the placeholder round trip yields 'New Tag' again and emits
\* neither he-tag-added nor he-tag-updated.
C3_RoundTripSilent ==
    C3_RoundTrip =>
        /\ TextContent(Component) = NewTag
        /\ TypesIn(emitted) \cap {"he-tag-added", "he-tag-updated"} = {}

\* C3 amended: the placeholder round trip yields 'New Tag' again and emits no
\* he-tag-updated, but it does emit he-tag-added {newTag: 'New Tag'}.
C3_RoundTripAdds ==
    C3_RoundTrip =>
        /\ TextContent(Component) = NewTag
        /\ originalText = NewTag
        /\ emitted # <<>>
        /\ \A i \in 1..Len(emitted) : emitted[i] = Added(NewTag)

C3_Witness == C3_RoundTrip /\ emitted = <<Added(NewTag)>>

(* -- C4 -- *)
\* What a key press leaves of the value, the snapshot, the suggestions and
\* the events.
KeyEffect(key) ==
    LET c == KeydownListeners(Component, 1, key)
    IN <<TextContent(c), c.originalText, c.autoComplete, c.emitted>>

\* C4 as stated: a Tab press with a prediction rendered accepts it, leaves the
\* component editing and emits no he-tag-updated / he-tag-added; a Tab press
\* without one has the effect of an Enter press.
C4_TabDisambiguation ==
    /\ TabOnPrediction =>
          /\ contenteditable
          /\ TextContent(Component) = pre.tagText \o pre.prediction[1]
          /\ TypesIn(emitted) \cap {"he-tag-added", "he-tag-updated"} = {}
    /\ (focused /\ ~HasPrediction(Component)) => KeyEffect("Tab") = KeyEffect("Enter")

(* -- C5 -- *)
\* C5 as stated: the value an Enter press confirms is the title-cased trimmed
\* draft, or 'New Tag' for an empty one, and a ghost suffix that was not
\* accepted is no part of the value, of the suggestions or of newTag.
C5_ConfirmUsesDraftOnly ==
    (Pressed("Enter") /\ pre.contenteditable) =>
        LET d == Trim(pre.tagText)
            v == IF d # <<>> THEN TitleCase(d) ELSE NewTag
        IN /\ TextContent(Component) = v
           /\ d # <<>> => v \in Elems(autoComplete)
           /\ \A i \in 1..Len(emitted) : emitted[i].detail.newTag = v

(* -- C6 -- *)
\* C6 as stated: after a recompute for the draft T and the suggestions S a
\* prediction is rendered exactly when S is not empty, trimmed T is not empty
\* and some element of S starts, without regard to case, with trimmed T.
C6_PredictionFilter ==
    lastOp.op = "input" =>
        (HasPrediction(Component) <=>
            /\ autoComplete # <<>>
            /\ Trim(tagText) # <<>>
            /\ Matches(autoComplete, tagText) # {})

(* -- C7 -- *)
\* C7: the rendered ghost text is the rest, from the draft's length on, of
\* the least matching suggestion in code unit order, and computing it leaves
\* the suggestion array as it was.
C7_PredictionTieBreak ==
    lastOp.op = "input" =>
        /\ autoComplete = pre.autoComplete
        /\ HasPrediction(Component) =>
              \E m \in Matches(autoComplete, tagText) :
                  /\ \A x \in Matches(autoComplete, tagText) : x = m \/ Precedes(m, x)
                  /\ prediction[1] = Slice(m, Len(tagText))

\* C7 witness: the draft 'a' with ['apple', 'Apricot', 'avocado'] renders
\* 'pricot'.
C7_Witness ==
    /\ lastOp.op = "input"
    /\ tagText = sA
    /\ autoComplete = <<slApple, sApricot, sAvocado>>
    /\ prediction = <<Slice(sApricot, 1)>>

(* -- C8 -- *)
\* C8 as stated: Tab with a ghost rendered makes the draft the literal draft
\* followed by the ghost, renders no prediction and keeps the session
\* editing; for the draft 'App' and the ghost 'le' the draft becomes 'Apple'.
C8_AcceptKeepsEditing ==
    TabOnPrediction =>
        /\ tagText = pre.tagText \o pre.prediction[1]
        /\ prediction = <<>>
        /\ contenteditable
        /\ focused
        /\ (pre.tagText = sApp /\ pre.prediction = <<Slice(sApple, 3)>>) => tagText = sApple

(* -- C9 -- *)
\* C9 as stated: when a session with a non-empty trimmed draft D is aborted,
\* the title-cased D is in the suggestions afterwards (and so among the
\* matches of its own prefix).
C9_AbortRegistersDraft ==
    \A i \in CallsOf("abortEdit") :
        (calls[i].editing /\ Trim(calls[i].draft) # <<>>) =>
            /\ TitleCase(Trim(calls[i].draft)) \in Elems(autoComplete)
            /\ TitleCase(Trim(calls[i].draft)) \in Matches(autoComplete, calls[i].draft)

(* -- C10 -- *)
\* C10 as stated: a click on the remove button emits exactly one
\* he-tag-removed with the trimmed value and detaches the component, and
\* from then on no entry, confirm or abort happens and nothing is emitted.
C10_RemovalIsFinal ==
    /\ lastOp.op = "remove" =>
          /\ lifecycle = "removed"
          /\ emitted = <<Removed(Trim(TextContent(Component)))>>
    /\ pre.lifecycle = "removed" =>
          /\ contenteditable = pre.contenteditable
          /\ calls = <<>>
          /\ emitted = <<>>

(* -- C11 -- *)
Clicked(tag) == [type |-> "he-tag-clicked", detail |-> [tag |-> tag]]

\* The value #tag-text showed when the last handler began.
PreText == pre.tagText \o (IF pre.prediction = <<>> THEN <<>> ELSE pre.prediction[1])

\* The last handler left the value, the snapshot, the suggestions and the
\* edit state as it found them.
Untouched ==
    /\ tagText = pre.tagText
    /\ prediction = pre.prediction
    /\ originalText = pre.originalText
    /\ autoComplete = pre.autoComplete
    /\ contenteditable = pre.contenteditable

\* C11: a click on the value of an idle tag that is not editable emits exactly
\* one he-tag-clicked {tag: trimmed value} and leaves the value, the snapshot,
\* the suggestions and the edit state unchanged; a click on an editable tag
\* emits no he-tag-clicked.
C11_ClickWhileIdle ==
    (lastOp.op = "click" /\ ~pre.contenteditable) =>
        IF ~Truthy(pre.editable)
        THEN /\ emitted = <<Clicked(Trim(PreText))>>
             /\ Untouched
        ELSE "he-tag-clicked" \notin TypesIn(emitted)

\* C11 witness: a click on a tag that is not editable and shows 'Apple'
\* emitted he-tag-clicked {tag: 'Apple'}.
C11_Witness ==
    /\ lastOp.op = "click"
    /\ ~pre.contenteditable
    /\ ~Truthy(pre.editable)
    /\ emitted = <<Clicked(sApple)>>
    /\ TextContent(Component) = sApple

\* C11 witness of the other case: a click on an editable idle tag began an
\* edit session and emitted nothing.
C11_WitnessEditable ==
    /\ lastOp.op = "click"
    /\ ~pre.contenteditable
    /\ Truthy(pre.editable)
    /\ contenteditable
    /\ emitted = <<>>

(* -- C12 -- *)
\* The step just taken assigned a value that is no array to autoComplete, or
\* a value that is no string to textContent.
InvalidAssignment ==
    \/ lastOp.op = "autoComplete" /\ lastOp.value.type # "array"
    \/ lastOp.op = "textContent" /\ lastOp.value.type # "string"

\* C12: assigning a non-array to autoComplete, or a non-string to
\* textContent, emits nothing and leaves the suggestions, the value, the
\* snapshot and the edit state exactly as they were.
C12_InvalidAssignmentIgnored ==
    InvalidAssignment =>
        /\ emitted = <<>>
        /\ calls = <<>>
        /\ Untouched
        /\ focused = pre.focused

\* C12 witness: a number was assigned to autoComplete while the tag had
\* suggestions, and they are still there.
C12_Witness ==
    /\ lastOp.op = "autoComplete"
    /\ lastOp.value = JsNumber
    /\ pre.autoComplete # <<>>
    /\ autoComplete = pre.autoComplete

\* C12 witness for the value: a number was assigned to textContent during an
\* edit session with a draft, which is still there.
C12_WitnessValue ==
    /\ lastOp.op = "textContent"
    /\ lastOp.value = JsNumber
    /\ pre.contenteditable
    /\ tagText # <<>>
    /\ contenteditable

(* -- C13 -- *)
\* C13 as stated: once #editable holds a boolean that the editable setter
\* assigned (before the element is connected no other code assigns one), every
\* step that is not another call of the setter leaves it as it is, the
\* connectedCallback of an element without the attribute included.
C13_ConfigurationPersists ==
    (lastOp.op # "editable" /\ pre.lifecycle = "created"
        /\ pre.editable \in {"true", "false"}) =>
            editable = pre.editable

(* -- C14 -- *)
\* C14 as stated: whenever the component is not editing, the displayed value
\* is not empty and has no white space at either end.
C14_TagValueInvariant ==
    ~contenteditable =>
        /\ TextContent(Component) # <<>>
        /\ Trim(TextContent(Component)) = TextContent(Component)

(* -- C15 -- *)
\* C15: every step other than an assignment to autoComplete keeps every
\* string that was among the suggestions among them.
C15_SuggestionsGrow ==
    lastOp.op # "autoComplete" =>
        Elems(pre.autoComplete) \subseteq Elems(autoComplete)

\* C15 witness: a confirm, an abort, a value assignment or addAutoComplete
\* added a string to suggestions that are all still there.
C15_Witness ==
    /\ lastOp.op \in {"keydown", "blur", "textContent", "addAutoComplete"}
    /\ Elems(pre.autoComplete) # {}
    /\ Elems(pre.autoComplete) \subseteq Elems(autoComplete)
    /\ Elems(autoComplete) # Elems(pre.autoComplete)

(* -- C16 -- *)
\* The step just taken invoked #openEdit (edit(), or a focus event, which a
\* click may bring) on an editable component with an edit session open.
EntryDuringSession ==
    /\ lastOp.op \in {"edit", "focus", "click"}
    /\ pre.contenteditable
    /\ Truthy(pre.editable)

\* C16 as stated: #openEdit invoked while an edit session is open changes
\* nothing; the snapshot the session took stays, and so does the draft.
C16_EntryNotReentrant ==
    EntryDuringSession =>
        /\ originalText = pre.originalText
        /\ tagText = pre.tagText
        /\ prediction = pre.prediction
        /\ contenteditable

(* -- C17 -- *)
\* The step just taken was an Enter press, or a Tab press with no prediction
\* rendered, in an edit session: a confirm by key.
ConfirmByKey ==
    /\ lastOp.op = "keydown"
    /\ lastOp.key \in {"Enter", "Tab"}
    /\ pre.contenteditable
    /\ lastOp.key = "Tab" => pre.prediction = <<>>

\* C17 as stated: in every edit session, the first and the later ones, the
\* blur that a confirm by Enter or Tab raises runs no #abortEdit.
C17_BlurRaceGuard ==
    ConfirmByKey => CallsOf("abortEdit") = {}

(* -- C18 -- *)
\* The step just taken was a focus, blur, click, input or key signal.
UserSignal == lastOp.op \in {"focus", "blur", "click", "input", "keydown"}

\* C18 as stated: on a component that is not editable and has no edit session
\* a user signal changes neither the value, the snapshot nor the suggestions
\* and emits no he-tag-updated or he-tag-added; and #confirmEdit never runs
\* without an edit session.
C18_NoSessionNoConfirm ==
    /\ (UserSignal /\ ~Truthy(pre.editable) /\ ~pre.contenteditable) =>
          /\ Untouched
          /\ TypesIn(emitted) \cap {"he-tag-updated", "he-tag-added"} = {}
    /\ \A i \in CallsOf("confirmEdit") : calls[i].editing

(* -- C19 -- *)
\* The step just taken was a Tab press in an edit session whose draft was a
\* suggestion in full: the #prediction span was rendered with the text ''.
TabOnExactMatch ==
    /\ Pressed("Tab")
    /\ pre.contenteditable
    /\ pre.prediction = <<Empty>>
    /\ pre.tagText \in Elems(pre.autoComplete)

\* C19 as stated: when the draft equals a suggestion in full a prediction with
\* an empty ghost is rendered, and a Tab press then takes the accept path: the
\* draft stays as it is, the session stays open and nothing is confirmed.
C19_ExactMatchQuirk ==
    /\ (lastOp.op = "input" /\ tagText # <<>> /\ tagText \in Elems(autoComplete)) =>
          HasPrediction(Component)
    /\ TabOnExactMatch =>
          /\ tagText = pre.tagText
          /\ prediction = <<>>
          /\ contenteditable
          /\ focused
          /\ CallsOf("confirmEdit") = {}
          /\ emitted = <<>>

(* -- C20 -- *)
\* The event loop runs every callback that setTimeout has queued.
FairSpec == Spec /\ \A k \in 1..MaxFocus : WF_vars(TimerFire(k))

\* The justConfirmed of the listeners the k-th focus event registered is set.
FlagSet(k) == k <= Len(justConfirmed) /\ justConfirmed[k]

\* The step just taken was a blur of the user in an open edit session.
BlurInSession == lastOp.op = "blur" /\ pre.contenteditable

\* C20: every justConfirmed that a confirm has set is cleared again (by the
\* timer callback the confirm queued), and a blur of the user in an edit
\* session, which no confirm precedes in its tick, runs #abortEdit: the
\* session ends and the value shown is #originalText.
C20_GuardIsTransient ==
    /\ \A k \in 1..MaxFocus : FlagSet(k) ~> ~FlagSet(k)
    /\ [](BlurInSession =>
            /\ \E i \in CallsOf("abortEdit") : calls[i].editing
            /\ ~contenteditable
            /\ TextContent(Component) = originalText
            /\ originalText = pre.originalText)

\* C20 witness: the value 'Ma' was confirmed by a key in an earlier session
\* (no host call was made and no host element has this text), the timer has
\* cleared the flag, and a blur in a later session aborted that session.
C20_Witness ==
    /\ BlurInSession
    /\ pre.listeners >= 2
    /\ hostCalls = 0
    /\ originalText = sMa
    /\ \A k \in 1..MaxFocus : ~FlagSet(k)
    /\ \E i \in CallsOf("abortEdit") : calls[i].editing

(* -- C21 -- *)
\* The he-tag-updated and he-tag-added events among the events of the last
\* handler.
Notifications ==
    {i \in 1..Len(emitted) : emitted[i].type \in {"he-tag-updated", "he-tag-added"}}

\* C21 as stated: one press of Enter or Tab in an edit session emits at most
\* one of he-tag-updated and he-tag-added, and that one at most once, in the
\* first edit session and in every later one.
C21_OneNotificationPerKey ==
    ((Pressed("Enter") \/ Pressed("Tab")) /\ pre.contenteditable) =>
        Cardinality(Notifications) <= 1

(* -- C22 -- *)
\* C22: whenever the component is not editing, the text #tag-text displays is
\* #originalText, the value the textContent getter returns.
C22_GetterEqualsDisplay ==
    ~contenteditable => TextContent(Component) = originalText

\* C22 witness: an Enter press in a later edit session, handled by two keydown
\* listeners, changed the value; the tag is idle again and displays the new
\* #originalText.
C22_Witness ==
    /\ Pressed("Enter")
    /\ pre.contenteditable
    /\ pre.listeners >= 2
    /\ ~contenteditable
    /\ originalText # pre.originalText
    /\ TextContent(Component) = originalText

\* C22 witness for an abort: a blur ended a session with a draft that differs
\* from the snapshot, and the tag displays #originalText.
C22_WitnessAbort ==
    /\ BlurInSession
    /\ Trim(PreText) # pre.originalText
    /\ ~contenteditable
    /\ TextContent(Component) = originalText
====
